---- MODULE Spec2Model ----
(***************************************************************************)
(* ExcelFlowClient (src/src/app/page.tsx, lines 374-768): the upload /     *)
(* preview / process workflow of the component, its FileReader callbacks,  *)
(* its progress interval and its processing delay.                         *)
(*                                                                         *)
(* Strings are sequences of tokens: a file name <<"datos", ".xlsx">> is    *)
(* the name "datos.xlsx", a media type <<"text/csv", ";charset=utf-8">> is *)
(* "text/csv;charset=utf-8".  endsWith and startsWith are computed on      *)
(* these sequences.                                                        *)
(*                                                                         *)
(* React's rendering is folded into the handler that caused it: the effect *)
(* of lines 494-510 (its cleanup included) runs at the end of every step   *)
(* that changed one of its dependencies.  The wall-clock timestamp of a    *)
(* log entry is left out: nothing in the component reads it.               *)
(***************************************************************************)
EXTENDS Integers, Sequences, FiniteSets, TLC

VARIABLES status, file, progress, logs, sheetHeaders, jsonData,
          readers, interval, procs, toasts, download, last, hist,
          submitted, confirmed

vars == <<status, file, progress, logs, sheetHeaders, jsonData,
          readers, interval, procs, toasts, download, last, hist,
          submitted, confirmed>>

(* The fields the component renders from. *)
fields == <<status, file, progress, logs, sheetHeaders, jsonData>>

----------------------------------------------------------------------------
(* Bounds of the model. *)

\* file submissions in one behaviour
MaxSubmit == 2
\* clicks on the confirm button in one behaviour
MaxConfirm == 2
\* the same two bounds where the handlers are called in any status
MaxSubmitAny == 1
MaxConfirmAny == 1

----------------------------------------------------------------------------
(* Program constants. *)

ProgressStep == 10
ProgressFull == 100

Statuses == {"idle", "uploading", "preview", "processing", "completed", "error"}

ACCEPTED_FILE_TYPES ==
    { <<"application/vnd.openxmlformats-officedocument.spreadsheetml.sheet">>,
      <<"application/vnd.ms-excel">>,
      <<"text/csv">> }

AcceptedExtensions == { <<".xlsx">>, <<".xls">>, <<".csv">> }

NoFile == [id |-> 0, name |-> <<>>, type |-> <<>>, content |-> "none"]

----------------------------------------------------------------------------
(* String.prototype.startsWith / endsWith. *)

StartsWith(s, prefix) ==
    /\ Len(s) >= Len(prefix)
    /\ SubSeq(s, 1, Len(prefix)) = prefix

EndsWith(s, suffix) ==
    /\ Len(s) >= Len(suffix)
    /\ SubSeq(s, Len(s) - Len(suffix) + 1, Len(s)) = suffix

----------------------------------------------------------------------------
(* The files a user can submit: name, declared media type, and what the    *)
(* bytes decode to.                                                        *)

FileInputs ==
    { [name |-> <<"datos", ".xlsx">>,
       type |-> <<"application/vnd.openxmlformats-officedocument.spreadsheetml.sheet">>,
       content |-> "table"],
      [name |-> <<"lista", ".csv">>, type |-> <<>>, content |-> "onerow"],
      [name |-> <<"empty", ".xlsx">>, type |-> <<>>, content |-> "empty"],
      [name |-> <<"roto", ".xls">>, type |-> <<"application/vnd.ms-excel">>,
       content |-> "corrupt"],
      [name |-> <<"macro", ".xlsm">>,
       type |-> <<"application/vnd.ms-excel", ".sheet.macroEnabled.12">>,
       content |-> "nokeys"],
      [name |-> <<"notas", ".txt">>, type |-> <<"text/plain">>, content |-> "table"],
      [name |-> <<"datos", ".xlsx", ".bak">>, type |-> <<>>, content |-> "table"] }

(* XLSX.read throws on bytes it cannot decode. *)
ReadThrows(content) == content = "corrupt"

(* XLSX.utils.sheet_to_json of the first sheet: a sequence of records,     *)
(* each record a sequence of <<key, value>> pairs in key order.            *)
SheetToJson(content) ==
    CASE content = "table"  -> << << <<"a", "1">>, <<"b", "2">> >>,
                                  << <<"a", "3">>, <<"b", "4">> >> >>
      [] content = "onerow" -> << << <<"a", "1">>, <<"b", "2">> >> >>
      [] content = "nokeys" -> << <<>> >>
      [] OTHER              -> <<>>

(* Object.keys of a record. *)
ObjectKeys(row) == [i \in 1..Len(row) |-> row[i][1]]


(* JSON.stringify(dataToProcess, null, 2), as the sequence of its tokens. *)
RECURSIVE StringifyPairs(_)
StringifyPairs(row) ==
    IF row = <<>> THEN <<>>
    ELSE <<Head(row)[1], ":", Head(row)[2]>>
           \o (IF Tail(row) = <<>> THEN <<>> ELSE <<",">>)
           \o StringifyPairs(Tail(row))

RECURSIVE StringifyRows(_)
StringifyRows(rows) ==
    IF rows = <<>> THEN <<>>
    ELSE <<"{">> \o StringifyPairs(Head(rows)) \o <<"}">>
           \o (IF Tail(rows) = <<>> THEN <<>> ELSE <<",">>)
           \o StringifyRows(Tail(rows))

\* a serialization of the first record only
JSONStringify_FirstRecord(rows) ==
    <<"[">> \o StringifyRows(SubSeq(rows, 1, 1)) \o <<"]">>

JSONStringify(rows) == <<"[">> \o StringifyRows(rows) \o <<"]">>

----------------------------------------------------------------------------
(* State after construction: the useState initial values, nothing pending. *)

NoLast == [op |-> "none", out |-> "none", arg |-> NoFile]

Init ==
    /\ status = "idle"
    /\ file = NoFile
    /\ progress = 0
    /\ logs = <<>>
    /\ sheetHeaders = <<>>
    /\ jsonData = <<>>
    /\ readers = <<>>
    /\ interval = NoFile
    /\ procs = <<>>
    /\ toasts = <<>>
    /\ download = <<>>
    /\ last = NoLast
    /\ hist = <<"idle">>
    /\ submitted = 0
    /\ confirmed = 0

----------------------------------------------------------------------------
\* an addLog that puts the new entry at the end
addLog_AtEnd(l, message, name, type) ==
    l \o <<[message |-> message, name |-> name, type |-> type]>>

(* addLog: the new entry goes in front. *)
addLog(l, message, name, type) ==
    <<[message |-> message, name |-> name, type |-> type]>> \o l

\* a validation that looks for the extension anywhere in the name
isAccepted_Includes(f) ==
    \/ \E type \in ACCEPTED_FILE_TYPES : StartsWith(f.type, type)
    \/ \E ext \in AcceptedExtensions, i \in 1..Len(f.name) : f.name[i] = ext[1]

(* The validation of handleFileSelect. *)
isAccepted(f) ==
    \/ \E type \in ACCEPTED_FILE_TYPES : StartsWith(f.type, type)
    \/ \E ext \in AcceptedExtensions : EndsWith(f.name, ext)

(* The effect of lines 494-510 for the render that follows a handler which *)
(* left status st, file fl and the interval iv: when a dependency changed, *)
(* the cleanup clears the interval of the previous run, and the body       *)
(* starts a new one (capturing fl) while uploading a file.                 *)
EffectRuns(st, fl) == st # status \/ fl # file

\* an effect that returns no cleanup
EffectInterval_NoCleanup(st, fl, iv) ==
    IF EffectRuns(st, fl) /\ st = "uploading" /\ fl # NoFile THEN fl ELSE iv

EffectInterval(st, fl, iv) ==
    IF EffectRuns(st, fl)
    THEN IF st = "uploading" /\ fl # NoFile THEN fl ELSE NoFile
    ELSE iv

EffectLogs(st, fl, lg) ==
    IF EffectRuns(st, fl) /\ st = "uploading" /\ fl # NoFile
    THEN addLog(lg, "Iniciando la carga del archivo...", <<>>, "info")
    ELSE lg

(* The render after a handler: the new status and file, the effect, and    *)
(* the record of the statuses taken since the last reset.  last records    *)
(* the handler or callback that ran last, its outcome and the file it was  *)
(* about (for handleReset: the status it was called in); toasts holds the  *)
(* notifications that run raised.                                          *)
Commit(st, fl, lg, iv) ==
    /\ status' = st
    /\ file' = fl
    /\ logs' = EffectLogs(st, fl, lg)
    /\ interval' = EffectInterval(st, fl, iv)
    /\ hist' = IF st = status THEN hist ELSE Append(hist, st)

RemoveAt(s, i) == SubSeq(s, 1, i - 1) \o SubSeq(s, i + 1, Len(s))

----------------------------------------------------------------------------
(* handleFileSelect (lines 417-492). *)

\* no file in the event: the handler returns at once
HandleFileSelectNothing == UNCHANGED vars

HandleFileSelectRejected(sel) ==
    /\ ~isAccepted(sel)
    /\ toasts' = <<"Formato de Archivo Invalido">>
    /\ Commit("error", file,
              addLog(logs, "Tipo de archivo invalido", sel.name, "error"),
              interval)
    /\ last' = [op |-> "handleFileSelect", out |-> "InvalidFormat", arg |-> sel]
    /\ UNCHANGED <<progress, sheetHeaders, jsonData, readers, procs, download>>

\* handleFileSelect without setSheetHeaders([]) and setJsonData([]): the table
\* of the previous attempt stays while the new file is read
HandleFileSelectAccepted_KeepsTable(sel) ==
    /\ isAccepted(sel)
    /\ progress' = 0
    /\ readers' = Append(readers, sel)
    /\ toasts' = <<>>
    /\ Commit("uploading", sel,
              addLog(logs, "Archivo seleccionado", sel.name, "info"),
              interval)
    /\ last' = [op |-> "handleFileSelect", out |-> "accepted", arg |-> sel]
    /\ UNCHANGED <<sheetHeaders, jsonData, procs, download>>

HandleFileSelectAccepted(sel) ==
    /\ isAccepted(sel)
    /\ progress' = 0
    /\ sheetHeaders' = <<>>
    /\ jsonData' = <<>>
    /\ readers' = Append(readers, sel)
    /\ toasts' = <<>>
    /\ Commit("uploading", sel,
              addLog(logs, "Archivo seleccionado", sel.name, "info"),
              interval)
    /\ last' = [op |-> "handleFileSelect", out |-> "accepted", arg |-> sel]
    /\ UNCHANGED <<procs, download>>

HandleFileSelect(f) ==
    /\ submitted' = submitted + 1
    /\ UNCHANGED confirmed
    /\ LET sel == [id |-> submitted + 1, name |-> f.name, type |-> f.type,
                   content |-> f.content]
       IN  \/ HandleFileSelectRejected(sel)
           \/ HandleFileSelectAccepted(sel)


----------------------------------------------------------------------------
(* reader.onload (lines 444-478) for the i-th pending read.  hasData is    *)
(* whether e.target.result is set; a missing result and a decode exception *)
(* both land in the catch block.                                           *)

\* a catch block that logs and notifies but leaves the status alone
ReaderOnloadCatch_NoStatus(i) ==
    /\ toasts' = <<"Error al Analizar el Archivo">>
    /\ Commit(status, file,
              addLog(logs, "No se pudo analizar el archivo", <<>>, "error"),
              interval)
    /\ last' = [op |-> "onload", out |-> "CorruptFile", arg |-> readers[i]]
    /\ UNCHANGED <<sheetHeaders, jsonData>>

ReaderOnloadCatch(i) ==
    /\ toasts' = <<"Error al Analizar el Archivo">>
    /\ Commit("error", file,
              addLog(logs, "No se pudo analizar el archivo", <<>>, "error"),
              interval)
    /\ last' = [op |-> "onload", out |-> "CorruptFile", arg |-> readers[i]]
    /\ UNCHANGED <<sheetHeaders, jsonData>>

\* reader.onload whose empty-result branch logs and notifies but leaves out
\* setStatus('error')
ReaderOnloadParsed_EmptyStays(i, parsedData) ==
    IF Len(parsedData) > 0 /\ Len(ObjectKeys(parsedData[1])) > 0
    THEN /\ sheetHeaders' = ObjectKeys(parsedData[1])
         /\ jsonData' = parsedData
         /\ toasts' = <<>>
         /\ Commit(status, file,
                   addLog(logs, "Datos del archivo analizados con exito", <<>>, "info"),
                   interval)
         /\ last' = [op |-> "onload", out |-> "parsed", arg |-> readers[i]]
    ELSE /\ toasts' = <<"Archivo Vacio">>
         /\ Commit(status, file,
                   addLog(logs, "El archivo seleccionado esta vacio", <<>>, "error"),
                   interval)
         /\ last' = [op |-> "onload", out |-> "EmptyFile", arg |-> readers[i]]
         /\ UNCHANGED <<sheetHeaders, jsonData>>

ReaderOnloadParsed(i, parsedData) ==
    IF Len(parsedData) > 0 /\ Len(ObjectKeys(parsedData[1])) > 0
    THEN /\ sheetHeaders' = ObjectKeys(parsedData[1])
         /\ jsonData' = parsedData
         /\ toasts' = <<>>
         /\ Commit(status, file,
                   addLog(logs, "Datos del archivo analizados con exito", <<>>, "info"),
                   interval)
         /\ last' = [op |-> "onload", out |-> "parsed", arg |-> readers[i]]
    ELSE /\ toasts' = <<"Archivo Vacio">>
         /\ Commit("error", file,
                   addLog(logs, "El archivo seleccionado esta vacio", <<>>, "error"),
                   interval)
         /\ last' = [op |-> "onload", out |-> "EmptyFile", arg |-> readers[i]]
         /\ UNCHANGED <<sheetHeaders, jsonData>>

ReaderOnload(i, hasData) ==
    /\ i \in 1..Len(readers)
    /\ readers' = RemoveAt(readers, i)
    /\ IF ~hasData \/ ReadThrows(readers[i].content)
       THEN ReaderOnloadCatch(i)
       ELSE ReaderOnloadParsed(i, SheetToJson(readers[i].content))
    /\ UNCHANGED <<progress, procs, download, submitted, confirmed>>

\* an onerror that starts the read again
ReaderOnerror_Retry(i) ==
    /\ i \in 1..Len(readers)
    /\ readers' = readers
    /\ toasts' = <<"Error al Leer el Archivo">>
    /\ Commit("error", file,
              addLog(logs, "Ocurrio un error al leer el archivo", <<>>, "error"),
              interval)
    /\ last' = [op |-> "onerror", out |-> "ReadFailure", arg |-> readers[i]]
    /\ UNCHANGED <<progress, sheetHeaders, jsonData, procs, download,
                   submitted, confirmed>>

(* reader.onerror (lines 479-488). *)
ReaderOnerror(i) ==
    /\ i \in 1..Len(readers)
    /\ readers' = RemoveAt(readers, i)
    /\ toasts' = <<"Error al Leer el Archivo">>
    /\ Commit("error", file,
              addLog(logs, "Ocurrio un error al leer el archivo", <<>>, "error"),
              interval)
    /\ last' = [op |-> "onerror", out |-> "ReadFailure", arg |-> readers[i]]
    /\ UNCHANGED <<progress, sheetHeaders, jsonData, procs, download,
                   submitted, confirmed>>

----------------------------------------------------------------------------
\* an updater that stops at 100 and never moves on to the preview
Tick_NeverDone ==
    /\ interval # NoFile
    /\ progress' = IF progress >= ProgressFull THEN ProgressFull
                   ELSE progress + ProgressStep
    /\ Commit(status, file, logs, interval)
    /\ last' = [op |-> "tick", out |-> "step", arg |-> interval]
    /\ toasts' = <<>>
    /\ UNCHANGED <<sheetHeaders, jsonData, readers, procs, download,
                   submitted, confirmed>>

\* an updater that tests prev > 100
Tick_OffByOne ==
    /\ interval # NoFile
    /\ IF progress > ProgressFull
       THEN /\ progress' = ProgressFull
            /\ Commit("preview", file,
                      addLog(logs, "subido con exito", interval.name, "info"),
                      NoFile)
            /\ last' = [op |-> "tick", out |-> "preview", arg |-> interval]
       ELSE /\ progress' = progress + ProgressStep
            /\ Commit(status, file, logs, interval)
            /\ last' = [op |-> "tick", out |-> "step", arg |-> interval]
    /\ toasts' = <<>>
    /\ UNCHANGED <<sheetHeaders, jsonData, readers, procs, download,
                   submitted, confirmed>>

(* One fire of the interval of lines 497-507; interval is the file its     *)
(* closure captured.                                                       *)
Tick ==
    /\ interval # NoFile
    /\ IF progress >= ProgressFull
       THEN /\ progress' = ProgressFull
            /\ Commit("preview", file,
                      addLog(logs, "subido con exito", interval.name, "info"),
                      NoFile)
            /\ last' = [op |-> "tick", out |-> "preview", arg |-> interval]
       ELSE /\ progress' = progress + ProgressStep
            /\ Commit(status, file, logs, interval)
            /\ last' = [op |-> "tick", out |-> "step", arg |-> interval]
    /\ toasts' = <<>>
    /\ UNCHANGED <<sheetHeaders, jsonData, readers, procs, download,
                   submitted, confirmed>>

----------------------------------------------------------------------------
(* handleProcess (lines 534-563), up to its await of the 1500 ms delay.    *)

HandleProcessNoData ==
    /\ Len(jsonData) = 0
    /\ toasts' = <<"No Hay Datos para Procesar">>
    /\ last' = [op |-> "handleProcess", out |-> "nodata", arg |-> file]
    /\ UNCHANGED <<status, file, progress, logs, sheetHeaders, jsonData, readers,
                   interval, procs, download, hist, submitted, confirmed>>

\* a handleProcess without the check of jsonData.length
HandleProcessStart_NoGuard ==
    /\ confirmed' = confirmed + 1
    /\ procs' = Append(procs, jsonData)
    /\ toasts' = <<>>
    /\ Commit("processing", file,
              addLog(logs, "Procesamiento de datos iniciado...", <<>>, "info"),
              interval)
    /\ last' = [op |-> "handleProcess", out |-> "started", arg |-> file]
    /\ UNCHANGED <<progress, sheetHeaders, jsonData, readers, download, submitted>>

HandleProcessStart ==
    /\ Len(jsonData) # 0
    /\ confirmed' = confirmed + 1
    /\ procs' = Append(procs, jsonData)
    /\ toasts' = <<>>
    /\ Commit("processing", file,
              addLog(logs, "Procesamiento de datos iniciado...", <<>>, "info"),
              interval)
    /\ last' = [op |-> "handleProcess", out |-> "started", arg |-> file]
    /\ UNCHANGED <<progress, sheetHeaders, jsonData, readers, download, submitted>>

(* The rest of handleProcess once the delay has elapsed, with              *)
(* simulateBackendProcessing (lines 512-532) on the table captured at the  *)
(* click; ok is whether the serialization and download went through.       *)
\* a simulateBackendProcessing whose catch block logs nothing
simulateBackendProcessingLogs_SilentCatch(lg, ok) ==
    LET begun == addLog(lg, "Los datos ya estan estructurados", <<>>, "info")
    IN  IF ok
        THEN addLog(begun, "Se genero y descargo processed_data.json", <<>>, "info")
        ELSE begun

simulateBackendProcessingLogs(lg, ok) ==
    LET begun == addLog(lg, "Los datos ya estan estructurados", <<>>, "info")
    IN  IF ok
        THEN addLog(begun, "Se genero y descargo processed_data.json", <<>>, "info")
        ELSE addLog(begun, "No se pudo generar el archivo JSON", <<>>, "error")

\* a handleProcess that does not look at the result of the serialization
ProcessDelayElapsed_IgnoreResult(ok) ==
    /\ procs # <<>>
    /\ procs' = Tail(procs)
    /\ download' = IF ok THEN JSONStringify(Head(procs)) ELSE download
    /\ toasts' = <<>>
    /\ Commit("completed", file,
              addLog(simulateBackendProcessingLogs(logs, ok),
                     "Procesamiento de datos completado", <<>>, "info"),
              interval)
    /\ last' = [op |-> "processDelay",
                out |-> IF ok THEN "completed" ELSE "SerializationFailure",
                arg |-> file]
    /\ UNCHANGED <<progress, sheetHeaders, jsonData, readers, submitted, confirmed>>

\* a handleProcess that empties the table once the download is done
ProcessDelayElapsed_ClearsTable(ok) ==
    /\ procs # <<>>
    /\ procs' = Tail(procs)
    /\ LET lg == simulateBackendProcessingLogs(logs, ok)
       IN  IF ok
           THEN /\ download' = JSONStringify(Head(procs))
                /\ toasts' = <<>>
                /\ jsonData' = <<>>
                /\ Commit("completed", file,
                          addLog(lg, "Procesamiento de datos completado", <<>>, "info"),
                          interval)
                /\ last' = [op |-> "processDelay", out |-> "completed", arg |-> file]
           ELSE /\ download' = download
                /\ toasts' = <<"Fallo el Procesamiento">>
                /\ jsonData' = jsonData
                /\ Commit("error", file,
                          addLog(lg, "Fallo el procesamiento de datos", <<>>, "error"),
                          interval)
                /\ last' = [op |-> "processDelay", out |-> "SerializationFailure",
                            arg |-> file]
    /\ UNCHANGED <<progress, sheetHeaders, readers, submitted, confirmed>>

ProcessDelayElapsed(ok) ==
    /\ procs # <<>>
    /\ procs' = Tail(procs)
    /\ LET lg == simulateBackendProcessingLogs(logs, ok)
       IN  IF ok
           THEN /\ download' = JSONStringify(Head(procs))
                /\ toasts' = <<>>
                /\ Commit("completed", file,
                          addLog(lg, "Procesamiento de datos completado", <<>>, "info"),
                          interval)
                /\ last' = [op |-> "processDelay", out |-> "completed", arg |-> file]
           ELSE /\ download' = download
                /\ toasts' = <<"Fallo el Procesamiento">>
                /\ Commit("error", file,
                          addLog(lg, "Fallo el procesamiento de datos", <<>>, "error"),
                          interval)
                /\ last' = [op |-> "processDelay", out |-> "SerializationFailure",
                            arg |-> file]
    /\ UNCHANGED <<progress, sheetHeaders, jsonData, readers, submitted, confirmed>>

----------------------------------------------------------------------------
\* a reset that forgets setLogs([])
HandleReset_KeepLogs ==
    /\ progress' = 0
    /\ sheetHeaders' = <<>>
    /\ jsonData' = <<>>
    /\ toasts' = <<>>
    /\ status' = "idle"
    /\ file' = NoFile
    /\ logs' = EffectLogs("idle", NoFile, logs)
    /\ interval' = EffectInterval("idle", NoFile, interval)
    /\ hist' = <<"idle">>
    /\ last' = [op |-> "handleReset", out |-> status, arg |-> NoFile]
    /\ UNCHANGED <<readers, procs, download, submitted, confirmed>>

(* handleReset (lines 565-572). *)
HandleReset ==
    /\ progress' = 0
    /\ sheetHeaders' = <<>>
    /\ jsonData' = <<>>
    /\ toasts' = <<>>
    /\ status' = "idle"
    /\ file' = NoFile
    /\ logs' = EffectLogs("idle", NoFile, <<>>)
    /\ interval' = EffectInterval("idle", NoFile, interval)
    /\ hist' = <<"idle">>
    /\ last' = [op |-> "handleReset", out |-> status, arg |-> NoFile]
    /\ UNCHANGED <<readers, procs, download, submitted, confirmed>>

----------------------------------------------------------------------------
(* What the rendered component offers the user in each status. *)

\* a drop zone that is also rendered over the preview
DropZoneRendered_InPreview == status \in {"idle", "error", "preview"}

\* renderContent: the drop zone and the file input exist in idle and error
DropZoneRendered == status \in {"idle", "error"}

\* a confirm button that is already there while uploading
ConfirmEnabled_WhileUploading ==
    status \in {"uploading", "preview"} /\ Len(jsonData) # 0

\* renderFooter: the confirm button exists in preview, disabled without data
ConfirmEnabled == status = "preview" /\ Len(jsonData) # 0

\* renderFooter with the reset button in every footer (the footer is rendered
\* whenever status is not idle)
ResetRendered_EveryFooter == status # "idle"

\* renderFooter: a reset button exists in completed and in error
ResetRendered == status \in {"completed", "error"}

DropFile(f) == DropZoneRendered /\ HandleFileSelect(f)

DropNothing == DropZoneRendered /\ HandleFileSelectNothing

ClickConfirm == ConfirmEnabled /\ HandleProcessStart

ClickReset == ResetRendered /\ HandleReset

(* The component as the user can drive it. *)
Next ==
    \/ \E f \in FileInputs : submitted < MaxSubmit /\ DropFile(f)
    \/ DropNothing
    \/ \E i \in 1..Len(readers), hasData \in BOOLEAN : ReaderOnload(i, hasData)
    \/ \E i \in 1..Len(readers) : ReaderOnerror(i)
    \/ Tick
    \/ confirmed < MaxConfirm /\ ClickConfirm
    \/ \E ok \in BOOLEAN : ProcessDelayElapsed(ok)
    \/ ClickReset

Spec == Init /\ [][Next]_vars

(* The callbacks the browser owes the component: the FileReader reports    *)
(* every read it was given, the interval keeps firing until it is cleared, *)
(* and the timeout of the processing delay elapses.                        *)
ReadCompletes ==
    \/ \E i \in 1..Len(readers), hasData \in BOOLEAN : ReaderOnload(i, hasData)
    \/ \E i \in 1..Len(readers) : ReaderOnerror(i)

DelayElapses == \E ok \in BOOLEAN : ProcessDelayElapsed(ok)

SpecFair ==
    /\ Init /\ [][Next]_vars
    /\ WF_vars(Tick)
    /\ WF_vars(ReadCompletes)
    /\ WF_vars(DelayElapses)

(* The handlers called in any status, as their own code allows. *)
NextAny ==
    \/ \E f \in FileInputs : submitted < MaxSubmitAny /\ HandleFileSelect(f)
    \/ HandleFileSelectNothing
    \/ \E i \in 1..Len(readers), hasData \in BOOLEAN : ReaderOnload(i, hasData)
    \/ \E i \in 1..Len(readers) : ReaderOnerror(i)
    \/ Tick
    \/ HandleProcessNoData
    \/ confirmed < MaxConfirmAny /\ HandleProcessStart
    \/ \E ok \in BOOLEAN : ProcessDelayElapsed(ok)
    \/ HandleReset

SpecAny == Init /\ [][NextAny]_vars


----------------------------------------------------------------------------
(* Vocabulary of the properties. *)

Failures == {"InvalidFormat", "EmptyFile", "CorruptFile", "ReadFailure",
             "SerializationFailure"}

CallbackOps == {"tick", "onload", "onerror", "processDelay"}

Range(s) == { s[i] : i \in 1..Len(s) }

ExtensionListed(f) ==
    \/ EndsWith(f.name, <<".xlsx">>)
    \/ EndsWith(f.name, <<".xls">>)
    \/ EndsWith(f.name, <<".csv">>)

TypeListed(f) == f.type \in ACCEPTED_FILE_TYPES

TypePrefixListed(f) ==
    \E t \in ACCEPTED_FILE_TYPES :
        Len(f.type) >= Len(t) /\ \A i \in 1..Len(t) : f.type[i] = t[i]

PendingFor(f) == \E i \in 1..Len(readers) : readers[i].id = f.id

(* The entries a step put in front of the log. *)
Added == SubSeq(logs', 1, Len(logs') - Len(logs))

ErrorEntries(s) == Cardinality({ i \in 1..Len(s) : s[i].type = "error" })

IdleValues ==
    /\ status = "idle"
    /\ file = NoFile
    /\ sheetHeaders = <<>>
    /\ jsonData = <<>>
    /\ progress = 0
    /\ logs = <<>>

Position(s, message) ==
    IF \E i \in 1..Len(s) : s[i].message = message
    THEN CHOOSE i \in 1..Len(s) :
            /\ s[i].message = message
            /\ \A j \in 1..(i - 1) : s[j].message # message
    ELSE 0

Canonical == <<"idle", "uploading", "preview", "processing", "completed">>

----------------------------------------------------------------------------
----------------------------------------------------------------------------
(* C2: while no failure has happened since the last reset, the statuses    *)
(* taken are a prefix of idle, uploading, preview, processing, completed,  *)
(* whichever of the interval and the file read comes first; so a run that  *)
(* reaches completed took exactly these five, in this order.               *)
C2_StatusSequence ==
    /\ hist[Len(hist)] = status
    /\ "error" \notin Range(hist)
          => (Len(hist) <= Len(Canonical) /\ hist = SubSeq(Canonical, 1, Len(hist)))

\* completed, the read having completed only after the preview was entered
C2_Witness ==
    /\ status = "completed"
    /\ hist = Canonical
    /\ Position(logs, "Datos del archivo analizados con exito") > 0
    /\ Position(logs, "Datos del archivo analizados con exito")
          < Position(logs, "subido con exito")

(* C3: every failure leaves the machine in status error, in whichever      *)
(* status it arrives; a decode exception and a missing read result are     *)
(* caught by the handler and end there too.                                *)
C3_FailureLeavesError ==
    /\ last.out \in Failures => status = "error"
    /\ (last.op = "handleFileSelect" /\ ~ExtensionListed(last.arg)
           /\ ~TypePrefixListed(last.arg)) => last.out = "InvalidFormat"
    /\ (last.op = "onload" /\ ReadThrows(last.arg.content)) => last.out = "CorruptFile"
    /\ (last.op = "onload" /\ ~ReadThrows(last.arg.content)
           /\ SheetToJson(last.arg.content) \in {<<>>, << <<>> >>})
          => last.out \in {"EmptyFile", "CorruptFile"}
    /\ last.op = "onerror" => last.out = "ReadFailure"
    /\ last.op = "processDelay" => last.out \in {"completed", "SerializationFailure"}

\* a decode exception that arrived after the machine had reached preview
C3_Witness ==
    /\ last.op = "onload"
    /\ last.out = "CorruptFile"
    /\ Len(hist) >= 2
    /\ hist[Len(hist) - 1] = "preview"
    /\ status = "error"

(* C4, as stated: every failure step puts exactly one entry, of severity   *)
(* error, in the log and raises exactly one notification.                  *)
C4_OneEntryPerFailure ==
    [][last'.out \in Failures
          => (/\ Len(logs') = Len(logs) + 1
              /\ logs'[1].type = "error"
              /\ Len(toasts') = 1)]_vars

(* C4, amended: every failure step raises exactly one notification and     *)
(* puts error entries in front of the log: one entry, of severity error,   *)
(* for InvalidFormat, EmptyFile, CorruptFile and ReadFailure; three        *)
(* entries, one info and then two of severity error, for                   *)
(* SerializationFailure.                                                   *)
C4_FailureLogged ==
    [][last'.out \in Failures
          => (/\ Len(toasts') = 1
              /\ Len(logs') > Len(logs)
              /\ SubSeq(logs', Len(logs') - Len(logs) + 1, Len(logs')) = logs
              /\ logs'[1].type = "error"
              /\ IF last'.out = "SerializationFailure"
                 THEN Len(Added) = 3 /\ ErrorEntries(Added) = 2
                 ELSE Len(Added) = 1 /\ ErrorEntries(Added) = 1)]_vars

C4_Witness ==
    /\ last.out = "SerializationFailure"
    /\ status = "error"
    /\ Len(toasts) = 1
    /\ ErrorEntries(logs) = 2

(* C5, as stated: the only step that leaves error is a reset to idle.      *)
C5_OnlyResetLeavesError ==
    [][(status = "error" /\ status' # "error")
          => (last'.op = "handleReset" /\ status' = "idle")]_vars

(* C5, amended: the machine leaves error only by a reset (to idle) or by   *)
(* the submission of an accepted file (to uploading); in error no read,    *)
(* interval or processing delay is pending, so nothing is retried on its   *)
(* own.                                                                    *)
C5_ErrorLeftByUserOnly ==
    [][/\ (status = "error" /\ status' # "error")
            => \/ last'.op = "handleReset" /\ status' = "idle"
               \/ last'.op = "handleFileSelect" /\ status' = "uploading"
       /\ status' = "error"
            => (readers' = <<>> /\ procs' = <<>> /\ interval' = NoFile)]_vars

\* a file accepted in error, without a reset in between
C5_Witness ==
    /\ status = "uploading"
    /\ Len(hist) >= 2
    /\ hist[Len(hist) - 1] = "error"
    /\ last.op = "handleFileSelect"


----------------------------------------------------------------------------
(* C6: handleReset, in whichever of the six statuses it is called, leaves  *)
(* status idle, no file, empty headers and table, progress 0 and an empty  *)
(* log; a reset that follows a reset changes none of these.                *)
C6_ResetToIdle ==
    /\ [](last.op = "handleReset" => IdleValues)
    /\ [][(last.op = "handleReset" /\ last'.op = "handleReset")
             => UNCHANGED fields]_vars

\* a reset called while a processing delay was pending
C6_Witness ==
    /\ last.op = "handleReset"
    /\ last.out = "processing"
    /\ procs # <<>>
    /\ IdleValues

\* a reset called right after a reset
C6_WitnessTwice ==
    /\ last.op = "handleReset"
    /\ last.out = "idle"
    /\ submitted > 0

C8_TickerOnlyWhileUploading ==
    /\ [](interval # NoFile => (status = "uploading" /\ interval = file))
    /\ [][/\ (status # "uploading" /\ last'.op = "tick")
               => (progress' = progress /\ status' = status)
          /\ status = "error" => status' # "preview"]_vars

\* a read failure that arrived in the middle of the upload
C8_Witness ==
    /\ status = "error"
    /\ last.op \in {"onload", "onerror"}
    /\ hist = <<"idle", "uploading", "error">>
    /\ progress > 0
    /\ progress < ProgressFull
    /\ interval = NoFile

(* C9: in status preview no file read is pending.                          *)
C9_ParsedBeforePreview == status = "preview" => readers = <<>>

(* C10: at most one file read and one processing delay are pending, and a  *)
(* file is submitted only in idle or error, with no read, interval or      *)
(* processing delay outstanding.                                           *)
C10_OneFileInFlight ==
    /\ [](Len(readers) <= 1 /\ Len(procs) <= 1)
    /\ [](readers # <<>> => (readers[1] = file /\ status \in {"uploading", "preview"}))
    /\ [](procs # <<>> => status = "processing")
    /\ [][last'.op = "handleFileSelect"
             => (/\ status \in {"idle", "error"}
                 /\ readers = <<>>
                 /\ interval = NoFile
                 /\ procs = <<>>)]_vars

\* a second file in flight, accepted after the first attempt had ended
C10_Witness ==
    /\ submitted = 2
    /\ Len(readers) = 1
    /\ readers[1].id = 2
    /\ status = "preview"
    /\ confirmed = 1


----------------------------------------------------------------------------
(* C11: an accepted submission sets progress to 0, an interval fire below  *)
(* 100 adds exactly 10 and keeps the status, progress does not decrease    *)
(* while the status stays uploading, and progress is a multiple of 10      *)
(* between 0 and 100 in every state.                                       *)
C11_ProgressSteps ==
    /\ [](progress \in 0..100 /\ progress % 10 = 0)
    /\ [][/\ (last'.op = "handleFileSelect" /\ last'.out = "accepted")
               => progress' = 0
          /\ (last'.op = "tick" /\ progress < 100)
               => (progress' = progress + 10 /\ status' = status)
          /\ (status = "uploading" /\ status' = "uploading")
               => progress' >= progress]_vars

\* the interval has fired ten times and the upload is still shown
C11_Witness ==
    /\ status = "uploading"
    /\ progress = 100
    /\ last.op = "tick"
    /\ last.out = "step"

(* C12: a confirm while the table is empty changes none of status, file,   *)
(* table, progress and log and starts no processing delay.                 *)
C12_ConfirmWithoutData ==
    [][(last'.op = "handleProcess" /\ Len(jsonData) = 0)
          => (UNCHANGED fields /\ UNCHANGED procs)]_vars

\* a confirm in preview, the read of the file still pending
C12_Witness ==
    /\ last.op = "handleProcess"
    /\ last.out = "nodata"
    /\ status = "preview"
    /\ jsonData = <<>>
    /\ readers # <<>>
    /\ procs = <<>>

(* C13: every step other than a reset leaves the log as it is or puts new  *)
(* entries in front of it, the previous log being the tail of the new one; *)
(* a reset empties it.                                                     *)
C13_LogAppendOnly ==
    [][IF last'.op = "handleReset"
       THEN logs' = <<>>
       ELSE /\ Len(logs') >= Len(logs)
            /\ SubSeq(logs', Len(logs') - Len(logs) + 1, Len(logs')) = logs]_vars

\* a completed attempt: the newest entry first, the oldest last
C13_Witness ==
    /\ last.out = "completed"
    /\ Len(logs) >= 3
    /\ logs[1].message = "Procesamiento de datos completado"
    /\ logs[2].message = "Se genero y descargo processed_data.json"
    /\ logs[Len(logs)].message = "Archivo seleccionado"


----------------------------------------------------------------------------
(* C14: in status idle there is no file, headers and table are empty,      *)
(* progress is 0 and the log is empty.                                     *)
C14_IdleIsReset == status = "idle" => IdleValues

\* idle again, after an attempt that was reset
C14_Witness ==
    /\ status = "idle"
    /\ last.op = "handleReset"
    /\ last.out = "completed"
    /\ download # <<>>

(* C15: in status completed the log holds the entry that processed_data    *)
(* .json was generated, newer than the newest "processing started" entry,  *)
(* and the run that ended the processing delay did not fail to serialize;  *)
(* a failed serialization never leaves status completed.                   *)
C15_CompletedMeansGenerated ==
    /\ status = "completed"
          => (/\ Position(logs, "Se genero y descargo processed_data.json") > 0
              /\ Position(logs, "Se genero y descargo processed_data.json")
                    < Position(logs, "Procesamiento de datos iniciado...")
              /\ Position(logs, "No se pudo generar el archivo JSON") \notin
                    1..Position(logs, "Procesamiento de datos iniciado...")
              /\ last.out = "completed")
    /\ last.out = "SerializationFailure" => status # "completed"

\* completed in the second attempt, the log still showing the failed first
C15_Witness ==
    /\ status = "completed"
    /\ Position(logs, "No se pudo generar el archivo JSON") > 0
    /\ Position(logs, "Se genero y descargo processed_data.json") > 0

(* The document read back: JSON.parse of a sequence of tokens. *)
RECURSIVE ParsePairs(_, _)
ParsePairs(t, acc) ==
    IF Head(t) = "}" THEN [row |-> acc, rest |-> Tail(t)]
    ELSE IF Head(t) = "," THEN ParsePairs(Tail(t), acc)
    ELSE ParsePairs(SubSeq(t, 4, Len(t)), Append(acc, <<t[1], t[3]>>))

RECURSIVE ParseRows(_, _)
ParseRows(t, acc) ==
    IF Head(t) = "]" THEN acc
    ELSE IF Head(t) = "," THEN ParseRows(Tail(t), acc)
    ELSE LET r == ParsePairs(Tail(t), <<>>)
         IN  ParseRows(r.rest, Append(acc, r.row))

JSONParse(t) == ParseRows(Tail(t), <<>>)

(* C16: while processing, the table captured at the confirm is the table   *)
(* of the state and no step changes it; in completed the downloaded        *)
(* document reads back as exactly the table shown, record by record in     *)
(* the same order.                                                         *)
C16_ArtifactIsTable ==
    /\ [](status = "processing" => (procs = <<jsonData>> /\ jsonData # <<>>))
    /\ [](status = "completed"
            => (/\ download # <<>>
                /\ JSONParse(download) = jsonData
                /\ jsonData = SheetToJson(file.content)))
    /\ [][status = "processing" => jsonData' = jsonData]_vars

\* the two-record table, downloaded
C16_Witness ==
    /\ status = "completed"
    /\ Len(jsonData) = 2
    /\ JSONParse(download) = jsonData

(* C17: preview is entered only from uploading, by an interval fire at     *)
(* progress 100 or more; processing only from preview, by a confirm with a *)
(* table that is not empty; completed only from processing; uploading only *)
(* from idle or error, by an accepted submission; idle only by a reset.    *)
C17_WorkflowEdges ==
    [][status' # status =>
        /\ status' = "preview"
              => (status = "uploading" /\ last'.op = "tick" /\ progress >= 100)
        /\ status' = "processing"
              => (status = "preview" /\ last'.op = "handleProcess" /\ jsonData # <<>>)
        /\ status' = "completed"
              => (status = "processing" /\ last'.op = "processDelay")
        /\ status' = "uploading"
              => (/\ status \in {"idle", "error"}
                  /\ last'.op = "handleFileSelect"
                  /\ last'.out = "accepted")
        /\ status' = "idle" => last'.op = "handleReset"]_vars

\* processing reached in an attempt that was started from error
C17_Witness ==
    /\ status = "processing"
    /\ hist = <<"idle", "error", "uploading", "preview", "processing">>


----------------------------------------------------------------------------
(* C18: with the interval, the file read and the processing delay each     *)
(* eventually delivered, uploading leads to preview or error and           *)
(* processing leads to completed or error.                                 *)
C18_TransientStatusesEnd ==
    /\ (status = "uploading") ~> (status \in {"preview", "error"})
    /\ (status = "processing") ~> (status \in {"completed", "error"})

\* an upload that ran its eleven fires and entered the preview
C18_Witness ==
    /\ status = "preview"
    /\ last.op = "tick"
    /\ last.out = "preview"
    /\ progress = 100


----------------------------------------------------------------------------
(* C19: with the user acting only where the rendered component lets them,  *)
(* in status processing and completed the table is not empty and a file is *)
(* set.                                                                    *)
C19_DataWhileProcessing ==
    status \in {"processing", "completed"}
       => (/\ jsonData # <<>>
           /\ Len(jsonData) > 0
           /\ sheetHeaders # <<>>
           /\ file # NoFile
           /\ file.id \in 1..submitted)

\* processing the one-record table of the second file submitted
C19_Witness ==
    /\ status = "processing"
    /\ file.id = 2
    /\ Len(jsonData) = 1

(* C20: with the user acting only where the rendered component lets them,  *)
(* progress is exactly 100 in status preview, processing and completed; in *)
(* error it is a multiple of 10 between 0 and 100.                         *)
C20_ProgressByStatus ==
    /\ status \in {"preview", "processing", "completed"} => progress = 100
    /\ status = "error" => progress \in { 10 * k : k \in 0..10 }

\* a failure that arrived half way through the upload
C20_Witness ==
    /\ status = "error"
    /\ progress = 50
    /\ last.out \in {"EmptyFile", "CorruptFile", "ReadFailure"}

\* ---------------------------------------------------------------------------
\* C21: no reachable state is stuck. What the rendered UI and the pending
\* callbacks offer is read off the state: a file can be submitted where the
\* drop zone is rendered, the ticker can fire while the interval is live, a
\* read can complete while a FileReader is outstanding, confirm is clickable in
\* preview with a non-empty table, the processing delay can elapse while a
\* handleProcess call is suspended, and reset is clickable in completed and
\* error. In every reachable state at least one of the six is offered; each
\* status has its own: idle and error the drop zone, uploading the ticker,
\* preview the confirm button or a pending read, processing the delay,
\* completed the reset button. Status preview with an empty table and no
\* pending read is never reached.
C21_SubmitOffered == status \in {"idle", "error"}

C21_TickOffered == interval # NoFile

C21_ReadOffered == readers # <<>>

C21_ConfirmOffered == status = "preview" /\ Len(jsonData) # 0

C21_DelayOffered == procs # <<>>

C21_ResetOffered == status \in {"completed", "error"}

C21_NeverStuck ==
    /\ \/ C21_SubmitOffered
       \/ C21_TickOffered
       \/ C21_ReadOffered
       \/ C21_ConfirmOffered
       \/ C21_DelayOffered
       \/ C21_ResetOffered
    /\ status = "uploading" => C21_TickOffered
    /\ status = "preview" => (C21_ConfirmOffered \/ C21_ReadOffered)
    /\ status = "processing" => C21_DelayOffered
    /\ ~(status = "preview" /\ jsonData = <<>> /\ readers = <<>>)
    \* the model's own gates are the ones read off above
    /\ C21_SubmitOffered <=> DropZoneRendered
    /\ C21_ConfirmOffered <=> ConfirmEnabled
    /\ C21_ResetOffered <=> ResetRendered

\* preview with an empty table and neither confirm nor reset offered: the only
\* thing that can still happen is the completion of the pending read
C21_Witness ==
    /\ status = "preview"
    /\ jsonData = <<>>
    /\ readers # <<>>
    /\ ~C21_ConfirmOffered
    /\ ~C21_ResetOffered
    /\ ~C21_SubmitOffered
    /\ ~C21_TickOffered
    /\ ~C21_DelayOffered

\* ---------------------------------------------------------------------------
\* C22: the rendered UI offers a reset only in status error and completed.
\* Every run of handleReset starts in one of these two statuses, and at that
\* moment nothing is pending: the progress ticker is not live, no FileReader is
\* outstanding and no handleProcess call is waiting for its delay. As a state
\* fact: the status recorded by the last handleReset is error or completed,
\* and wherever the reset button is rendered nothing is pending.
C22_NothingPending == interval = NoFile /\ readers = <<>> /\ procs = <<>>

C22_ResetStep ==
    /\ last'.op = "handleReset"
    /\ status' = "idle"
    /\ hist' = <<"idle">>

C22_ResetOnlyWhenSettled ==
    [][C22_ResetStep =>
          /\ status \in {"error", "completed"}
          /\ status \notin {"uploading", "preview", "processing"}
          /\ C22_NothingPending
          /\ last'.out = status]_vars

C22_ResetOfferedSettled ==
    /\ last.op = "handleReset" => last.out \in {"error", "completed"}
    /\ status \in {"error", "completed"} => C22_NothingPending

C22_ResetOnlyInErrorOrCompleted ==
    /\ C22_ResetOnlyWhenSettled
    /\ []C22_ResetOfferedSettled

\* handleReset has run from error, after a failed read of an accepted file
C22_Witness ==
    /\ last.op = "handleReset"
    /\ last.out = "error"
    /\ status = "idle"
    /\ submitted >= 1
    /\ C22_NothingPending
    /\ logs = <<>>

\* ---------------------------------------------------------------------------
\* C23: the table always belongs to the current file. In every reachable state
\* with a non-empty table a file is held, the table is what parsing that file
\* yields and the headers are the keys of its first row; every pending read is
\* a read of the file held. Step by step: the table is written only by the
\* onload callback of the file held at that moment, and whenever the file
\* field changes the headers and the table are emptied in the same step.
C23_TableOfFile ==
    jsonData # <<>> =>
        /\ file # NoFile
        /\ jsonData = SheetToJson(file.content)
        /\ sheetHeaders = ObjectKeys(jsonData[1])

C23_NoEarlierRead ==
    \A i \in 1..Len(readers) : readers[i] = file /\ readers[i].id = file.id

C23_TableWrittenByCurrentRead ==
    [][(jsonData' # jsonData /\ jsonData' # <<>>) =>
          /\ last'.op = "onload"
          /\ last'.out = "parsed"
          /\ last'.arg = file
          /\ file' = file
          /\ jsonData = <<>>
          /\ jsonData' = SheetToJson(file.content)]_vars

C23_NewFileEmptiesTable ==
    [][file' # file => (jsonData' = <<>> /\ sheetHeaders' = <<>>)]_vars

C23_TableBelongsToFile ==
    /\ [](C23_TableOfFile /\ C23_NoEarlierRead)
    /\ C23_TableWrittenByCurrentRead
    /\ C23_NewFileEmptiesTable

\* the table of the second file is on screen after an earlier attempt whose
\* table was a different one and whose processing failed
C23_Witness ==
    /\ file.id = 2
    /\ jsonData # <<>>
    /\ jsonData = SheetToJson(file.content)
    /\ readers = <<>>
    /\ \E i \in 1..Len(logs) :
          /\ logs[i].message = "Archivo seleccionado"
          /\ logs[i].name # file.name
    /\ Position(logs, "No se pudo generar el archivo JSON") > 0

====
